---- MODULE Spec2Model ----
(***************************************************************************)
(* A model of src/main.py: the Flask server with the /search aggregator    *)
(* (google_search_api, ddg_lite_search, search) and the /chat relay        *)
(* (chat_proxy).  One request is handled at a time; inside /search the two *)
(* backend clients run as two pool tasks that interleave freely with the   *)
(* handler.  The upstream services are the environment: what they answer   *)
(* is drawn from bounded sets.                                             *)
(***************************************************************************)
EXTENDS Integers, Sequences, FiniteSets, TLC

VARIABLES
    GROQ_API_KEY,      \* module globals read once at startup (lines 30-32)
    GOOGLE_API_KEY,
    GOOGLE_CX_ID,
    pc,                \* position of the request handler
    request,           \* the query string arguments of the /search request
    page,              \* local of search(): int(request.args.get("page", 1))
    google_results,    \* local of search(): future_google.result()
    final_results,     \* local of search()
    future_google,     \* the two futures of the ThreadPoolExecutor
    future_ddg,
    google_resp,       \* what the Google upstream answered (<<>>: not asked)
    ddg_resp,          \* what the DuckDuckGo upstream answered
    google_requests,   \* network requests sent by google_search_api
    ddg_requests,      \* network requests sent by ddg_lite_search
    google_calls,      \* invocations of google_search_api in this request
    ddg_calls,         \* invocations of ddg_lite_search in this request
    response           \* what the HTTP layer sends back

vars == <<GROQ_API_KEY, GOOGLE_API_KEY, GOOGLE_CX_ID, pc, request, page,
          google_results, final_results, future_google, future_ddg,
          google_resp, ddg_resp, google_requests, ddg_requests,
          google_calls, ddg_calls, response>>

(***************************************************************************)
(* Bounds of the model.                                                    *)
(***************************************************************************)
MaxItems == 2      \* items in one Google response body
MaxRows == 4       \* <tr> rows in one free-form DuckDuckGo table
SmallRows == 2     \* rows of a DuckDuckGo table in the aggregation scope
ExtraPairs == 1    \* well-formed row pairs beyond the cap of 15
MaxInternal == 2   \* self-referential pairs in a well-formed table

(***************************************************************************)
(* Program constants.                                                      *)
(***************************************************************************)
GooglePageSize == 10   \* start_index = ((page - 1) * 10) + 1
GoogleNum == 10        \* "num": 10
DdgPageSize == 20      \* skip = (page - 1) * 20
DdgCap == 15           \* clean_results[:15]
HttpOk == 200
HttpTooMany == 429
HttpServerError == 500 \* what Flask answers when a view raises

(***************************************************************************)
(* Python values.                                                          *)
(***************************************************************************)
Null == "<None>"                           \* None as a field value
None == [isNone |-> TRUE, list |-> <<>>]   \* None as a function result
Some(l) == [isNone |-> FALSE, list |-> l]  \* a list as a function result

\* bool(s) of an Optional[str]: None and "" are falsy
TruthyStr(s) == s # Null /\ s # ""

SeqsUpTo(S, n) == UNION {[1..k -> S] : k \in 0..n}

Take(s, n) == IF Len(s) <= n THEN s ELSE SubSeq(s, 1, n)

(***************************************************************************)
(* int(str): what line 174 does to the raw "page" argument.  A raw value   *)
(* is a sequence of characters.                                            *)
(***************************************************************************)
Digits == <<"0", "1", "2", "3", "4", "5", "6", "7", "8", "9">>

IsDigit(c) == \E d \in 1..Len(Digits) : Digits[d] = c

DigitVal(c) == (CHOOSE d \in 1..Len(Digits) : Digits[d] = c) - 1

RECURSIVE LStrip(_)
LStrip(s) == IF s # <<>> /\ Head(s) = " " THEN LStrip(Tail(s)) ELSE s

RECURSIVE RStrip(_)
RStrip(s) ==
    IF s # <<>> /\ s[Len(s)] = " " THEN RStrip(SubSeq(s, 1, Len(s) - 1)) ELSE s

RECURSIVE DigitsValue(_, _)
DigitsValue(s, acc) ==
    IF s = <<>> THEN acc
    ELSE DigitsValue(Tail(s), acc * 10 + DigitVal(Head(s)))

\* [ok |-> FALSE]: int() raises ValueError
ParseInt(raw) ==
    LET t == RStrip(LStrip(raw))
        signed == t # <<>> /\ Head(t) \in {"-", "+"}
        ds == IF signed THEN Tail(t) ELSE t
    IN  IF ds = <<>> \/ \E i \in 1..Len(ds) : ~IsDigit(ds[i])
        THEN [ok |-> FALSE, val |-> 0]
        ELSE [ok |-> TRUE,
              val |-> IF signed /\ Head(t) = "-"
                      THEN 0 - DigitsValue(ds, 0) ELSE DigitsValue(ds, 0)]

\* request.args.get("page", 1) followed by int(): an absent argument is 1
PageOf(arg) == IF arg = <<>> THEN [ok |-> TRUE, val |-> 1] ELSE ParseInt(arg[1])

\* request.args.get("q", "")
QOf(arg) == IF arg = <<>> THEN "" ELSE arg[1]

(***************************************************************************)
(* google_search_api (lines 49-90).                                        *)
(* An upstream answer is [raises, status, body]; raises: requests.get      *)
(* failed or timed out.  A body is [shape, items]:                         *)
(*   "notjson"    resp.json() raises                                       *)
(*   "nonobject"  JSON, but not an object: data.get raises                 *)
(*   "noitems"    an object without "items"                                *)
(*   "itemsnull"  an object whose "items" is null: the for loop raises     *)
(*   "items"      an object with a list of items                           *)
(* An item is [isObject, title, link, snippet], Null for a missing field.  *)
(***************************************************************************)
start_index(p) == ((p - 1) * GooglePageSize) + 1

\* lines 74-79: item.get(...) of each field
GoogleResult(item) ==
    [title |-> item.title, url |-> item.link, snippet |-> item.snippet,
     source |-> "Google"]

\* lines 71-80, inside the try: None stands for an exception caught at line 88
GoogleBody(body) ==
    IF body.shape \in {"notjson", "nonobject", "itemsnull"} THEN None
    ELSE LET items == IF body.shape = "noitems" THEN <<>> ELSE body.items
         IN  IF \E i \in 1..Len(items) : ~items[i].isObject THEN None
             ELSE Some([i \in 1..Len(items) |-> GoogleResult(items[i])])

\* lines 70-86 with 429 answered as an empty list instead of None
GoogleStatusMutant(up) ==
    IF up.status = HttpOk THEN GoogleBody(up.body)
    ELSE IF up.status = HttpTooMany THEN Some(<<>>)
    ELSE None

\* lines 70-86: the status dispatch
GoogleStatus(up) ==
    IF up.status = HttpOk THEN GoogleBody(up.body)
    ELSE IF up.status = HttpTooMany THEN None
    ELSE None

\* [ret, requests]: the return value and the network requests sent
google_search_api(key, cx, query, p, up) ==
    IF ~TruthyStr(key) \/ ~TruthyStr(cx) THEN [ret |-> None, requests |-> <<>>]
    ELSE [requests |-> <<[q |-> query, start |-> start_index(p),
                          num |-> GoogleNum]>>,
          ret |-> IF up.raises THEN None ELSE GoogleStatus(up)]

(***************************************************************************)
(* ddg_lite_search (lines 92-139).                                         *)
(* An upstream answer is [raises, status, rows]; rows are the <tr> of the  *)
(* page.  A row is [link, snippet]: link is <<>> (no a.result-link in the  *)
(* row) or <<[title, href]>>, href Null when the tag has no href           *)
(* attribute; snippet is <<>> (no td.result-snippet) or <<text>>.          *)
(***************************************************************************)
skip(p) == (p - 1) * DdgPageSize

\* "duckduckgo.com" in url: the URLs of the model that contain the domain
InternalUrls ==
    {"https://duckduckgo.com/y.js?ad=1", "https://example.org/?ref=duckduckgo.com"}

ContainsDdg(url) == url \in InternalUrls

\* The loop state is [ok, current_result, results]; ok = FALSE: an exception
\* was raised (link_tag['href'] of a tag without href) and the loop is left.
LoopStart == [ok |-> TRUE, current_result |-> <<>>, results |-> <<>>]

\* lines 118-130: one iteration of the loop, with a buffer that is not cleared
ParseRowMutant(st, row) ==
    IF ~st.ok THEN st
    ELSE IF row.link # <<>>
    THEN IF row.link[1].href = Null
         THEN [st EXCEPT !.ok = FALSE]
         ELSE [st EXCEPT !.current_result =
                   <<[title |-> row.link[1].title, url |-> row.link[1].href,
                      source |-> "DuckDuckGo"]>>]
    ELSE IF row.snippet # <<>> /\ st.current_result # <<>>
    THEN [st EXCEPT
             !.results = Append(st.results,
                 [title |-> st.current_result[1].title,
                  url |-> st.current_result[1].url,
                  snippet |-> row.snippet[1],
                  source |-> st.current_result[1].source])]
    ELSE st

\* lines 118-130: one iteration of the loop
ParseRow(st, row) ==
    IF ~st.ok THEN st
    ELSE IF row.link # <<>>
    THEN IF row.link[1].href = Null
         THEN [st EXCEPT !.ok = FALSE]
         ELSE [st EXCEPT !.current_result =
                   <<[title |-> row.link[1].title, url |-> row.link[1].href,
                      source |-> "DuckDuckGo"]>>]
    ELSE IF row.snippet # <<>> /\ st.current_result # <<>>
    THEN [st EXCEPT
             !.results = Append(st.results,
                 [title |-> st.current_result[1].title,
                  url |-> st.current_result[1].url,
                  snippet |-> row.snippet[1],
                  source |-> st.current_result[1].source]),
             !.current_result = <<>>]
    ELSE st

\* lines 113-130: the loop over rows
RECURSIVE ParseRows(_, _)
ParseRows(st, rows) ==
    IF rows = <<>> THEN st ELSE ParseRows(ParseRow(st, Head(rows)), Tail(rows))

\* line 133
RECURSIVE clean_results(_)
clean_results(results) ==
    IF results = <<>> THEN <<>>
    ELSE IF ContainsDdg(Head(results).url) THEN clean_results(Tail(results))
    ELSE <<Head(results)>> \o clean_results(Tail(results))

\* lines 133-134 with the cap applied before the filter
DdgReturnMutant(results) == clean_results(Take(results, DdgCap))

\* lines 133-134
DdgReturn(results) == Take(clean_results(results), DdgCap)

\* [ret, requests]; the except at line 136 and line 139 make every failure []
ddg_lite_search(query, p, up) ==
    [requests |-> <<[q |-> query, s |-> skip(p)]>>,
     ret |-> IF up.raises \/ up.status # HttpOk THEN <<>>
             ELSE LET st == ParseRows(LoopStart, up.rows)
                  IN  IF st.ok THEN DdgReturn(st.results) ELSE <<>>]

(***************************************************************************)
(* chat_proxy (lines 147-169).  The request body is "messages" (an object  *)
(* with a message list), "nomessages" (an object without), "null",         *)
(* "nonobject" (request.json is not a dict: data.get raises) or            *)
(* "malformed" (request.json raises).  The upstream answer is              *)
(* [raises, json]: json = FALSE when resp.json() raises.                   *)
(***************************************************************************)
NoResponse == [status |-> 0, kind |-> "none", results |-> <<>>, content |-> ""]

ChatPayload(text) ==
    [status |-> HttpOk, kind |-> "chat", results |-> <<>>, content |-> text]

chat_proxy(key, body, up) ==
    IF ~TruthyStr(key) THEN ChatPayload("**Error:** GROQ_API_KEY not configured.")
    ELSE IF body \in {"malformed", "null", "nonobject"}
    THEN ChatPayload("**System Error:**")
    ELSE IF up.raises \/ ~up.json THEN ChatPayload("**System Error:**")
    ELSE ChatPayload("upstream")

(***************************************************************************)
(* search (lines 171-204).                                                 *)
(***************************************************************************)
NoFuture == [state |-> "none", value |-> None]

NoResults ==
    [title |-> "No Results Found", url |-> "#",
     snippet |-> "Both Google and DuckDuckGo failed to return results.",
     source |-> "System"]

SearchPayload(results) ==
    [status |-> HttpOk, kind |-> "search", results |-> results, content |-> ""]

\* An exception that leaves the view: Flask answers 500 with an HTML page
ServerError ==
    [status |-> HttpServerError, kind |-> "error", results |-> <<>>,
     content |-> "Internal Server Error"]

\* line 188 with an off-by-one in the length test
UseGoogleMutant(g) == ~g.isNone /\ g.list # <<>> /\ Len(g.list) > 1

\* line 188 with only the None test: an empty list counts as an answer
UseGoogleNotNone(g) == ~g.isNone

\* line 188: google_results and len(google_results) > 0
UseGoogle(g) == ~g.isNone /\ g.list # <<>> /\ Len(g.list) > 0

\* lines 196-202 without the page test
FallbackMutant(results, p) == IF results = <<>> THEN <<NoResults>> ELSE results

\* lines 196-202
Fallback(results, p) ==
    IF results = <<>> /\ p = 1 THEN <<NoResults>> ELSE results

\* lines 173-183: the arguments are read, page first; an empty q answers at
\* once; otherwise both clients are submitted to the pool.
Receive(QArgs, PageArgs) ==
    /\ pc = "idle"
    /\ \E qa \in QArgs, pa \in PageArgs :
         /\ request' = [q |-> qa, page |-> pa]
         /\ IF ~PageOf(pa).ok
            THEN /\ response' = ServerError
                 /\ pc' = "done"
                 /\ UNCHANGED <<page, future_google, future_ddg>>
            ELSE /\ page' = PageOf(pa).val
                 /\ IF QOf(qa) = ""
                    THEN /\ response' = SearchPayload(<<>>)
                         /\ pc' = "done"
                         /\ UNCHANGED <<future_google, future_ddg>>
                    ELSE /\ future_google' = [state |-> "pending", value |-> None]
                         /\ future_ddg' = [state |-> "pending", value |-> None]
                         /\ pc' = "await_google"
                         /\ UNCHANGED response
    /\ UNCHANGED <<GROQ_API_KEY, GOOGLE_API_KEY, GOOGLE_CX_ID, google_results,
                   final_results, google_resp, ddg_resp, google_requests,
                   ddg_requests, google_calls, ddg_calls>>

\* The pool task of line 182: google_search_api(q, page) runs to its end.
GoogleTask(Ups) ==
    /\ future_google.state = "pending"
    /\ \E up \in Ups :
         LET r == google_search_api(GOOGLE_API_KEY, GOOGLE_CX_ID,
                                    QOf(request.q), page, up)
         IN  /\ future_google' = [state |-> "done", value |-> r.ret]
             /\ google_requests' = google_requests \o r.requests
             /\ google_resp' = IF r.requests = <<>> THEN google_resp ELSE <<up>>
    /\ google_calls' = google_calls + 1
    /\ UNCHANGED <<GROQ_API_KEY, GOOGLE_API_KEY, GOOGLE_CX_ID, pc, request, page,
                   google_results, final_results, future_ddg, ddg_resp,
                   ddg_requests, ddg_calls, response>>

\* The pool task of line 183: ddg_lite_search(q, page) runs to its end.
DdgTask(Ups) ==
    /\ future_ddg.state = "pending"
    /\ \E up \in Ups :
         LET r == ddg_lite_search(QOf(request.q), page, up)
         IN  /\ future_ddg' = [state |-> "done", value |-> Some(r.ret)]
             /\ ddg_requests' = ddg_requests \o r.requests
             /\ ddg_resp' = <<up>>
    /\ ddg_calls' = ddg_calls + 1
    /\ UNCHANGED <<GROQ_API_KEY, GOOGLE_API_KEY, GOOGLE_CX_ID, pc, request, page,
                   google_results, final_results, future_google, google_resp,
                   google_requests, google_calls, response>>

\* lines 186-190: future_google.result() blocks until the task is done
AwaitGoogle ==
    /\ pc = "await_google"
    /\ future_google.state = "done"
    /\ google_results' = future_google.value
    /\ IF UseGoogle(future_google.value)
       THEN /\ final_results' = future_google.value.list
            /\ pc' = "exit_with"
       ELSE /\ pc' = "await_ddg"
            /\ UNCHANGED final_results
    /\ UNCHANGED <<GROQ_API_KEY, GOOGLE_API_KEY, GOOGLE_CX_ID, request, page,
                   future_google, future_ddg, google_resp, ddg_resp,
                   google_requests, ddg_requests, google_calls, ddg_calls,
                   response>>

\* lines 191-193: future_ddg.result() blocks until the task is done
AwaitDdg ==
    /\ pc = "await_ddg"
    /\ future_ddg.state = "done"
    /\ final_results' = future_ddg.value.list
    /\ pc' = "exit_with"
    /\ UNCHANGED <<GROQ_API_KEY, GOOGLE_API_KEY, GOOGLE_CX_ID, request, page,
                   google_results, future_google, future_ddg, google_resp,
                   ddg_resp, google_requests, ddg_requests, google_calls,
                   ddg_calls, response>>

\* The end of the with block of line 181 (ThreadPoolExecutor.__exit__ is
\* shutdown(wait=True): it returns when both tasks are done), then lines
\* 195-204.
Respond ==
    /\ pc = "exit_with"
    /\ future_google.state = "done"
    /\ future_ddg.state = "done"
    /\ final_results' = Fallback(final_results, page)
    /\ response' = SearchPayload(Fallback(final_results, page))
    /\ pc' = "done"
    /\ UNCHANGED <<GROQ_API_KEY, GOOGLE_API_KEY, GOOGLE_CX_ID, request, page,
                   google_results, future_google, future_ddg, google_resp,
                   ddg_resp, google_requests, ddg_requests, google_calls,
                   ddg_calls>>

\* A /chat request, handled in one step (lines 147-169).
Chat ==
    /\ pc = "idle"
    /\ \E body \in {"messages", "nomessages", "null", "nonobject", "malformed"},
          up \in [raises : BOOLEAN, json : BOOLEAN] :
         response' = chat_proxy(GROQ_API_KEY, body, up)
    /\ pc' = "done"
    /\ UNCHANGED <<GROQ_API_KEY, GOOGLE_API_KEY, GOOGLE_CX_ID, request, page,
                   google_results, final_results, future_google, future_ddg,
                   google_resp, ddg_resp, google_requests, ddg_requests,
                   google_calls, ddg_calls>>

\* The response is sent; nothing of the request outlives it.
Finish ==
    /\ pc = "done"
    /\ pc' = "idle"
    /\ request' = [q |-> <<>>, page |-> <<>>]
    /\ page' = 1
    /\ google_results' = None
    /\ final_results' = <<>>
    /\ future_google' = NoFuture
    /\ future_ddg' = NoFuture
    /\ google_resp' = <<>>
    /\ ddg_resp' = <<>>
    /\ google_requests' = <<>>
    /\ ddg_requests' = <<>>
    /\ google_calls' = 0
    /\ ddg_calls' = 0
    /\ response' = NoResponse
    /\ UNCHANGED <<GROQ_API_KEY, GOOGLE_API_KEY, GOOGLE_CX_ID>>

\* lines 30-32: the configuration is read once; no request is in progress
InitWith(GroqKeys, GoogleKeys, CxIds) ==
    /\ GROQ_API_KEY \in GroqKeys
    /\ GOOGLE_API_KEY \in GoogleKeys
    /\ GOOGLE_CX_ID \in CxIds
    /\ pc = "idle"
    /\ request = [q |-> <<>>, page |-> <<>>]
    /\ page = 1
    /\ google_results = None
    /\ final_results = <<>>
    /\ future_google = NoFuture
    /\ future_ddg = NoFuture
    /\ google_resp = <<>>
    /\ ddg_resp = <<>>
    /\ google_requests = <<>>
    /\ ddg_requests = <<>>
    /\ google_calls = 0
    /\ ddg_calls = 0
    /\ response = NoResponse

NextWith(QArgs, PageArgs, GoogleUps, DdgUps) ==
    \/ Receive(QArgs, PageArgs)
    \/ GoogleTask(GoogleUps)
    \/ DdgTask(DdgUps)
    \/ AwaitGoogle
    \/ AwaitDdg
    \/ Respond
    \/ Chat
    \/ Finish

(***************************************************************************)
(* What the environment may send and answer.                               *)
(***************************************************************************)
\* os.environ.get: unset, set to the empty string, or set
EnvValues == {Null, "", "key"}

AllQArgs == {<<>>, <<"">>, <<"tla">>}

RawPages == {<<"1">>, <<"2">>, <<"0">>, <<"-", "1">>, <<"a">>, <<" ", "2">>, <<>>}

AllPageArgs == {<<>>} \cup {<<r>> : r \in RawPages}

ItemA == [isObject |-> TRUE, title |-> "A", link |-> "https://a.example/",
          snippet |-> "about a"]

ItemB == [isObject |-> TRUE, title |-> "B", link |-> "https://b.example/",
          snippet |-> "about b"]

Scalar == [isObject |-> FALSE, title |-> Null, link |-> Null, snippet |-> Null]

AllItems ==
    {ItemB, Scalar}
    \cup {[isObject |-> TRUE, title |-> t, link |-> l, snippet |-> sn] :
            t \in {Null, ItemA.title}, l \in {Null, ItemA.link},
            sn \in {Null, ItemA.snippet}}

SmallItems == {ItemA, ItemB, [ItemA EXCEPT !.title = Null]}

GoogleAnswers(Items) ==
    {[raises |-> FALSE, status |-> HttpOk, body |-> [shape |-> "items", items |-> its]] :
        its \in SeqsUpTo(Items, MaxItems)}
    \cup {[raises |-> FALSE, status |-> st, body |-> [shape |-> "notjson", items |-> <<>>]] :
        st \in {HttpTooMany, HttpServerError}}
    \cup {[raises |-> TRUE, status |-> 0, body |-> [shape |-> "notjson", items |-> <<>>]]}

GoogleOddBodies ==
    {[raises |-> FALSE, status |-> HttpOk, body |-> [shape |-> sh, items |-> <<>>]] :
        sh \in {"notjson", "nonobject", "noitems", "itemsnull"}}

AllGoogleUps == GoogleAnswers(AllItems) \cup GoogleOddBodies

SmallGoogleUps == GoogleAnswers(SmallItems)

GoogleDown ==
    {[raises |-> TRUE, status |-> 0, body |-> [shape |-> "notjson", items |-> <<>>]]}

LinkRow(t, h) == [link |-> <<[title |-> t, href |-> h]>>, snippet |-> <<>>]

SnippetRow(x) == [link |-> <<>>, snippet |-> <<x>>]

OtherRow == [link |-> <<>>, snippet |-> <<>>]

ExternalUrl == "https://example.org/page"

AllRows ==
    {LinkRow("T1", ExternalUrl), LinkRow("T2", "https://duckduckgo.com/y.js?ad=1"),
     LinkRow("T3", Null), SnippetRow("S1"), SnippetRow("S2"), OtherRow,
     [link |-> <<[title |-> "T4", href |-> "https://example.net/"]>>,
      snippet |-> <<"S3">>]}

SmallRowSet ==
    {LinkRow("T1", ExternalUrl), LinkRow("T2", "https://duckduckgo.com/y.js?ad=1"),
     SnippetRow("S1"), OtherRow}

\* The subsets of S with at most k elements
RECURSIVE SubsetsUpTo(_, _)
SubsetsUpTo(S, k) ==
    IF k = 0 THEN {{}}
    ELSE LET P == SubsetsUpTo(S, k - 1)
         IN  P \cup {p \cup {x} : p \in P, x \in S}

\* A well-formed page: n pairs of a link row and its snippet row, numbered;
\* the pairs at the positions in I link back to the scraped host.
PairTable(n, I) ==
    [k \in 1..(2 * n) |->
        IF k % 2 = 1
        THEN LinkRow("T" \o ToString((k + 1) \div 2),
                     IF ((k + 1) \div 2) \in I
                     THEN "https://example.org/?ref=duckduckgo.com"
                     ELSE ExternalUrl)
        ELSE SnippetRow("S" \o ToString(k \div 2))]

MaxPairs == DdgCap + ExtraPairs

PairTables ==
    UNION {{PairTable(n, I) : I \in SubsetsUpTo(1..n, MaxInternal)} : n \in 0..MaxPairs}

DdgAnswers(Tables) ==
    {[raises |-> FALSE, status |-> HttpOk, rows |-> t] : t \in Tables}
    \cup {[raises |-> FALSE, status |-> HttpServerError, rows |-> <<>>],
          [raises |-> TRUE, status |-> 0, rows |-> <<>>]}

AllDdgUps == DdgAnswers(SeqsUpTo(AllRows, MaxRows) \cup PairTables)

SmallDdgUps == DdgAnswers(SeqsUpTo(SmallRowSet, SmallRows))

DdgDown == {[raises |-> TRUE, status |-> 0, rows |-> <<>>]}

(***************************************************************************)
(* The specifications: the same server, under three scopes of inputs.      *)
(***************************************************************************)
Init == InitWith(EnvValues, EnvValues, EnvValues)

Next == NextWith(AllQArgs, AllPageArgs, SmallGoogleUps, SmallDdgUps)

\* The aggregator: every configuration and request, small upstream answers
Spec == Init /\ [][Next]_vars

InitGoogle == InitWith({"key"}, EnvValues, EnvValues)

NextGoogle == NextWith({<<"tla">>}, {<<>>, <<<<"2">>>>, <<<<"3">>>>}, AllGoogleUps, DdgDown)

\* The structured client: every Google answer, the scraper down
SpecGoogle == InitGoogle /\ [][NextGoogle]_vars

InitScrape == InitWith({"key"}, {Null}, {Null})

NextScrape == NextWith({<<"tla">>}, {<<>>, <<<<"2">>>>}, GoogleDown, AllDdgUps)

\* The scraping client: every DuckDuckGo page, the structured client unconfigured
SpecScrape == InitScrape /\ [][NextScrape]_vars

(***************************************************************************)
(* Properties.                                                             *)
(***************************************************************************)
SearchDone == pc = "done" /\ response.kind = "search"

QueryGiven == QOf(request.q) # ""

GoogleOut == future_google.value

DdgOut == future_ddg.value.list

HasSynthetic == \E i \in 1..Len(response.results) : response.results[i].source = "System"

\* C1: when the structured client returned a non-empty list, the response of
\* /search (non-empty q, page >= 1) is exactly that list, in its order,
\* whatever the scraping client returned and whichever task finished first.
C1_StructuredWins ==
    (SearchDone /\ QueryGiven /\ page >= 1
        /\ ~GoogleOut.isNone /\ Len(GoogleOut.list) > 0)
    => response.results = GoogleOut.list

C1_Witness ==
    /\ SearchDone /\ QueryGiven /\ page >= 1
    /\ Len(GoogleOut.list) = 2 /\ GoogleOut.list[1] # GoogleOut.list[2]
    /\ DdgOut # <<>>
    /\ response.results = GoogleOut.list

\* C2 as stated: when the structured client returned None or an empty list,
\* the response of /search (non-empty q, page >= 1) equals the scraping
\* client's output.
C2_FallbackIsScrape ==
    (SearchDone /\ QueryGiven /\ page >= 1
        /\ (GoogleOut.isNone \/ GoogleOut.list = <<>>))
    => response.results = DdgOut

\* C2 amended: when the structured client returned None or an empty list, the
\* response equals the scraping client's output, except that an empty
\* scraping output on page 1 is answered with the one synthetic record.
C2_FallbackIsScrapeOrSynthetic ==
    (SearchDone /\ QueryGiven /\ page >= 1
        /\ (GoogleOut.isNone \/ GoogleOut.list = <<>>))
    => response.results =
          IF DdgOut = <<>> /\ page = 1 THEN <<NoResults>> ELSE DdgOut

C2_Witness ==
    /\ SearchDone /\ QueryGiven /\ page >= 1
    /\ ~GoogleOut.isNone /\ GoogleOut.list = <<>>
    /\ DdgOut # <<>>
    /\ response.results = DdgOut

Selected == IF ~GoogleOut.isNone /\ Len(GoogleOut.list) > 0 THEN GoogleOut.list ELSE DdgOut

\* C3: for a /search request with non-empty q, the response holds the
\* synthetic "No Results Found" record if and only if page = 1 and the list
\* selected from the backends is empty; it is then that one record alone; for
\* page >= 2 with both backends empty the response is the empty list.
C3_SyntheticOnlyOnEmptyFirstPage ==
    (pc = "done" /\ QueryGiven /\ response.kind # "chat")
    => /\ HasSynthetic <=> (response.kind = "search" /\ page = 1 /\ Selected = <<>>)
       /\ HasSynthetic =>
            /\ response.results = <<NoResults>>
            /\ NoResults.source = "System" /\ NoResults.url = "#"
       /\ (response.kind = "search" /\ page >= 2
              /\ GoogleOut.list = <<>> /\ DdgOut = <<>>)
          => response.results = <<>>

C3_Witness ==
    /\ SearchDone /\ QueryGiven /\ page = 1
    /\ ~GoogleOut.isNone /\ GoogleOut.list = <<>> /\ DdgOut = <<>>
    /\ response.results = <<NoResults>>

\* C4: every SearchResult of a /search response has non-null title, url,
\* snippet and source, also when an upstream item lacks a field.
C4_NoNullField ==
    \A i \in 1..Len(response.results) :
        /\ response.results[i].title # Null
        /\ response.results[i].url # Null
        /\ response.results[i].snippet # Null
        /\ response.results[i].source # Null

\* C5: no exception reaches the HTTP layer: every answered request of /chat
\* and /search is HTTP 200 with a JSON body, under every failure condition.
C5_AlwaysJson200 ==
    pc = "done" => /\ response.status = HttpOk
                   /\ response.kind \in {"search", "chat"}

\* C6: per /search request, each backend client is invoked 0 times when q is
\* empty (and the response is {results: []}) and exactly once when q is not.
C6_CallCounts ==
    (pc = "done" /\ response.kind # "chat")
    => IF QueryGiven
       THEN google_calls = 1 /\ ddg_calls = 1
       ELSE /\ google_calls = 0 /\ ddg_calls = 0
            /\ response = SearchPayload(<<>>)

NotInternal(r) == ~ContainsDdg(r.url)

DdgPage == ddg_resp[1]

Scraped == future_ddg.state = "done" /\ ~DdgPage.raises /\ DdgPage.status = HttpOk

Parsed == ParseRows(LoopStart, DdgPage.rows)

\* C7: the list returned by the scraping client has at most 15 results, none
\* with a URL that contains "duckduckgo.com", and is the first 15
\* non-self-referential parsed results in parse order (filter, then cap).
C7_FilterThenCap ==
    future_ddg.state = "done"
    => /\ Len(DdgOut) <= DdgCap
       /\ \A i \in 1..Len(DdgOut) : ~ContainsDdg(DdgOut[i].url)
       /\ (Scraped /\ Parsed.ok)
          => DdgOut = Take(SelectSeq(Parsed.results, NotInternal), DdgCap)

C7_Witness ==
    /\ Scraped /\ Parsed.ok
    /\ Len(Parsed.results) > DdgCap
    /\ \E i \in 1..DdgCap : ContainsDdg(Parsed.results[i].url)
    /\ Len(DdgOut) = DdgCap
    /\ DdgOut[DdgCap] = Parsed.results[DdgCap + 1]

\* C8: the structured path is never blocked on the scraper: once the
\* structured client's non-empty list has been taken, the response can be
\* produced, whether or not the scraping task has completed.
C8_NotBlockedOnScraper ==
    (pc = "exit_with" /\ ~google_results.isNone /\ Len(google_results.list) > 0)
    => ENABLED Respond

GoogleAnswer == google_resp[1]

\* A body the client can parse: a JSON object whose "items", when present, is
\* a list of objects.
Parseable(body) ==
    /\ body.shape \in {"noitems", "items"}
    /\ \A i \in 1..Len(body.items) : body.items[i].isObject

\* C9: the structured client returns None without a network call when the
\* key or the context id is absent; None on 429, on any other non-200
\* status, on a failed or timed-out call; and a list in upstream order with
\* source "Google" exactly when the upstream answers 200 with a parseable body.
C9_StructuredOutcome ==
    future_google.state = "done"
    => IF ~TruthyStr(GOOGLE_API_KEY) \/ ~TruthyStr(GOOGLE_CX_ID)
       THEN GoogleOut = None /\ google_requests = <<>>
       ELSE /\ Len(google_requests) = 1
            /\ IF GoogleAnswer.raises \/ GoogleAnswer.status # HttpOk
                  \/ ~Parseable(GoogleAnswer.body)
               THEN GoogleOut = None
               ELSE /\ ~GoogleOut.isNone
                    /\ Len(GoogleOut.list) = Len(GoogleAnswer.body.items)
                    /\ \A i \in 1..Len(GoogleOut.list) :
                         /\ GoogleOut.list[i].source = "Google"
                         /\ GoogleOut.list[i].title = GoogleAnswer.body.items[i].title
                         /\ GoogleOut.list[i].url = GoogleAnswer.body.items[i].link
                         /\ GoogleOut.list[i].snippet = GoogleAnswer.body.items[i].snippet

C9_Witness ==
    /\ future_google.state = "done"
    /\ google_requests # <<>>
    /\ ~GoogleAnswer.raises /\ GoogleAnswer.status = HttpOk
    /\ Len(GoogleAnswer.body.items) = 2
    /\ GoogleAnswer.body.items[1] # GoogleAnswer.body.items[2]
    /\ ~GoogleOut.isNone /\ Len(GoogleOut.list) = 2
    /\ GoogleOut.list[1].title = GoogleAnswer.body.items[1].title
    /\ GoogleOut.list[2].title = GoogleAnswer.body.items[2].title
    /\ GoogleOut.list[1].title # GoogleOut.list[2].title

IsLink(row) == row.link # <<>>

IsSnippet(row) == row.link = <<>> /\ row.snippet # <<>>

\* The link pending when row i is reached: the last link row before i, if
\* every row between the two is neither a link row nor a snippet row.
PendingAt(rows, i) ==
    {j \in 1..(i - 1) :
        /\ IsLink(rows[j])
        /\ \A k \in (j + 1)..(i - 1) : ~IsLink(rows[k]) /\ ~IsSnippet(rows[k])}

PairAt(rows, i) ==
    IF IsSnippet(rows[i]) /\ PendingAt(rows, i) # {}
    THEN LET j == CHOOSE x \in PendingAt(rows, i) : TRUE
         IN  <<[title |-> rows[j].link[1].title, url |-> rows[j].link[1].href,
                snippet |-> rows[i].snippet[1], source |-> "DuckDuckGo"]>>
    ELSE <<>>

RECURSIVE PairsUpTo(_, _)
PairsUpTo(rows, n) ==
    IF n = 0 THEN <<>> ELSE PairsUpTo(rows, n - 1) \o PairAt(rows, n)

\* C10: over any sequence of rows, the parser yields one result per snippet
\* row seen while a link is pending, pairing it with that link; the pending
\* link is cleared only by such a pairing; rows that are neither are
\* tolerated; a snippet row with nothing pending is ignored; a link with no
\* later snippet yields nothing.
C10_PairingStateMachine ==
    (Scraped /\ \A i \in 1..Len(DdgPage.rows) :
                    IsLink(DdgPage.rows[i]) => DdgPage.rows[i].link[1].href # Null)
    => DdgOut = Take(SelectSeq(PairsUpTo(DdgPage.rows, Len(DdgPage.rows)),
                               NotInternal), DdgCap)

C10_Witness ==
    /\ Scraped
    /\ Len(DdgPage.rows) = 4
    /\ IsSnippet(DdgPage.rows[1])
    /\ IsLink(DdgPage.rows[2]) /\ DdgPage.rows[2].link[1].href = ExternalUrl
    /\ ~IsLink(DdgPage.rows[3]) /\ ~IsSnippet(DdgPage.rows[3])
    /\ IsSnippet(DdgPage.rows[4])
    /\ Len(DdgOut) = 1
    /\ DdgOut[1].title = DdgPage.rows[2].link[1].title
    /\ DdgOut[1].snippet = DdgPage.rows[4].snippet[1]

====
